---- MODULE Spec2Model ----
(***************************************************************************)
(* A model of couchbase/management/users.py: the RBAC user manager, its    *)
(* entities (Role, User, UserAndMetadata, Group) and the helpers it calls. *)
(*                                                                         *)
(* Python values are modelled as follows.  A str that is parsed or escaped *)
(* (role names, bucket names, role strings) is a sequence of one-character *)
(* strings; identifiers, option values and exception class names are TLA+  *)
(* strings; a dict is a function whose DOMAIN is its key set; a list is a  *)
(* sequence; an object reference is an index into a heap.                  *)
(***************************************************************************)
EXTENDS Integers, Sequences, FiniteSets, TLC

VARIABLES
    composed,   \* the last forward_args call: its inputs and its result
    rt,         \* the last Role conversion: its input and its result
    entity,     \* the User or Group object the caller holds
    last,       \* the manager operation that has just returned or raised
    heap,       \* the mutable list objects, by reference
    meta,       \* the RawUserAndMetadata object the caller holds
    u1, u2,     \* the User objects obtained from meta.user
    access      \* the last read of meta.effective_roles_and_origins

vars == <<composed, rt, entity, last, heap, meta, u1, u2, access>>

-----------------------------------------------------------------------------
(* Bounds of the model *)

\* longest role name and bucket name, in characters
MaxLen == 2
\* most options blocks handed to one forward_args call
MaxBlocks == 2
\* longest roles list held by a user payload
MaxRoles == 2

-----------------------------------------------------------------------------
(* Python values *)

\* None where a str is expected (a sequence no str can equal)
None == <<"None">>
\* None where an option value or an identifier is expected
NoneVal == "None"

EmptyDict == [k \in {} |-> NoneVal]

\* what a variable holds before anything is constructed or called
NoEntity == [kind |-> "none"]
NoOp == [op |-> "none"]
NoUser == [kind |-> "none"]
NoMeta == [kind |-> "none"]
NoAccess == [kind |-> "none"]

\* dict.get(key), with None for a missing key
Get(d, k, dflt) == IF k \in DOMAIN d THEN d[k] ELSE dflt

Restrict_unfiltered(d, keys) == d

\* {k: v for k, v in d.items() if k in keys}
Restrict(d, keys) == [k \in (DOMAIN d) \cap keys |-> d[k]]

\* d.update(e)
Update(d, e) == [k \in (DOMAIN d) \cup (DOMAIN e) |-> IF k \in DOMAIN e THEN e[k] ELSE d[k]]

\* every str over an alphabet whose length lies in lo..hi
StrsOver(alphabet, lo, hi) == UNION {[1..n -> alphabet] : n \in lo..hi}

\* every list of at most n elements of S
ListsOver(S, n) == UNION {[1..k -> S] : k \in 0..n}

\* every ordering of a finite set (the orders in which a set may be iterated)
Orderings(S) == {s \in [1..Cardinality(S) -> S] : \A i, j \in 1..Cardinality(S) : s[i] = s[j] => i = j}

\* text contains pat as a contiguous run
Contains(text, pat) ==
    \E i \in 0..(Len(text) - Len(pat)) : \A j \in 1..Len(pat) : text[i + j] = pat[j]

-----------------------------------------------------------------------------
(* urllib.parse.quote, str.join *)

QuoteChar(c) ==
    CASE c = "[" -> <<"%", "5", "B">>
      [] c = "]" -> <<"%", "5", "D">>
      [] c = "%" -> <<"%", "2", "5">>
      [] c = "," -> <<"%", "2", "C">>
      [] OTHER -> <<c>>

RECURSIVE ulp_quote(_)
ulp_quote(s) == IF s = <<>> THEN <<>> ELSE QuoteChar(Head(s)) \o ulp_quote(Tail(s))

RECURSIVE Join(_, _)
Join(sep, strs) ==
    IF strs = <<>> THEN <<>>
    ELSE IF Len(strs) = 1 THEN strs[1]
    ELSE strs[1] \o sep \o Join(sep, Tail(strs))

-----------------------------------------------------------------------------
(* Role: RawRole(name, bucket), Admin._role_to_str, Admin._str_to_role,    *)
(* Role.decode                                                             *)

RawRole(name, bucket) == [name |-> name, bucket |-> bucket]

\* the three shapes Role.decode accepts
StrParam(s) == [t |-> "str", v |-> s]
DictParam(d) == [t |-> "dict", v |-> d]
TupleParam(s) == [t |-> "tuple", v |-> s]

Admin_role_to_str(role) ==
    IF role.bucket = None THEN role.name
    ELSE role.name \o <<"[">> \o role.bucket \o <<"]">>

\* the position of the first "[" of s (0 when it has none)
FirstBracket(s) ==
    IF \E i \in 1..Len(s) : s[i] = "["
    THEN CHOOSE i \in 1..Len(s) : s[i] = "[" /\ \A j \in 1..(i - 1) : s[j] # "["
    ELSE 0

Admin_str_to_role(s) ==
    LET i == FirstBracket(s) IN
    IF i > 0 /\ s[Len(s)] = "]"
    THEN DictParam([role |-> SubSeq(s, 1, i - 1), bucket |-> SubSeq(s, i + 1, Len(s) - 1)])
    ELSE DictParam([role |-> s])

Role_str(role) == Admin_role_to_str(role)

Role_decode_swapped(param) ==
    LET p == IF param.t = "str" THEN Admin_str_to_role(param.v) ELSE param
        args == IF p.t = "dict"
                THEN <<Get(p.v, "bucket", None), Get(p.v, "role", None)>>
                ELSE p.v
    IN RawRole(args[1], args[2])

Role_decode(param) ==
    LET p == IF param.t = "str" THEN Admin_str_to_role(param.v) ELSE param
        args == IF p.t = "dict"
                THEN <<Get(p.v, "role", None), Get(p.v, "bucket", None)>>
                ELSE p.v
    IN RawRole(args[1], args[2])

NoRt == [form |-> "none"]

\* the characters role and bucket names are drawn from: a plain one and three
\* that need percent-encoding, two of them the brackets of the grammar
Alphabet == {"a", "%", "[", "]"}
Names == StrsOver(Alphabet, 1, MaxLen)
Buckets == StrsOver(Alphabet, 0, MaxLen) \cup {None}
Roles == {RawRole(n, b) : n \in Names, b \in Buckets}

\* str(r) followed by Role.decode
RoundTrip ==
    \E r \in Roles :
        /\ rt = NoRt
        /\ rt' = [form |-> "str", role |-> r, wire |-> StrParam(Role_str(r)),
                  decoded |-> Role_decode(StrParam(Role_str(r)))]
        /\ UNCHANGED <<composed, entity, last, heap, meta, u1, u2, access>>

\* Role.decode of the structured form {role, bucket}
DecodeDict ==
    \E r \in Roles :
        LET d == IF r.bucket = None THEN [role |-> r.name]
                 ELSE [role |-> r.name, bucket |-> r.bucket] IN
        /\ rt = NoRt
        /\ rt' = [form |-> "dict", role |-> r, wire |-> DictParam(d),
                  decoded |-> Role_decode(DictParam(d))]
        /\ UNCHANGED <<composed, entity, last, heap, meta, u1, u2, access>>

\* Role.decode of the positional form (name, bucket)
DecodeTuple ==
    \E r \in Roles :
        /\ rt = NoRt
        /\ rt' = [form |-> "tuple", role |-> r, wire |-> TupleParam(<<r.name, r.bucket>>),
                  decoded |-> Role_decode(TupleParam(<<r.name, r.bucket>>))]
        /\ UNCHANGED <<composed, entity, last, heap, meta, u1, u2, access>>

-----------------------------------------------------------------------------
(* forward_args(kwargs, *options) *)

\* a source's keys that were provided: those whose value is not None
DropNone(d) == [k \in {x \in DOMAIN d : d[x] # NoneVal} |-> d[k]]

RECURSIVE MergeBlocks(_)
MergeBlocks(blocks) ==
    IF blocks = <<>> THEN EmptyDict
    ELSE Update(MergeBlocks(SubSeq(blocks, 1, Len(blocks) - 1)), DropNone(blocks[Len(blocks)]))

forward_args_blocks_win(kwargs, options) == Update(DropNone(kwargs), MergeBlocks(options))

forward_args(kwargs, options) == Update(MergeBlocks(options), DropNone(kwargs))

NoCompose == [done |-> FALSE]

\* the keys and values of keyword arguments and options blocks
OptionKeys == {"timeout", "retries"}
TimeoutValues == {NoneVal, "5", "10"}
RetryValues == {"3"}
OptionDicts ==
    {Update(t, r) :
        t \in {EmptyDict} \cup {[timeout |-> v] : v \in TimeoutValues},
        r \in {EmptyDict} \cup {[retries |-> v] : v \in RetryValues}}

Compose ==
    \E kw \in OptionDicts, opts \in ListsOver(OptionDicts, MaxBlocks) :
        /\ composed = NoCompose
        /\ composed' = [done |-> TRUE, kwargs |-> kw, options |-> opts, result |-> forward_args(kw, opts)]
        /\ UNCHANGED <<rt, entity, last, heap, meta, u1, u2, access>>

-----------------------------------------------------------------------------
(* Exceptions, UserErrorHandler, NotSupportedWrapper *)

HTTPException(status, text) == [cls |-> "HTTPException", status |-> status, text |-> text]
TypeError == [cls |-> "TypeError", status |-> 0, text |-> <<>>]

Return(value) == [kind |-> "return", value |-> value]
Raise(exc) == [kind |-> "raise", exc |-> exc]

UserErrorHandler_mapping_swapped ==
    [HTTPException |-> <<[pattern |-> <<"Unknown", "group">>, exc |-> "UserNotFoundException"],
                         [pattern |-> <<"Unknown", "user">>, exc |-> "GroupNotFoundException"]>>]

\* {HTTPException: {'Unknown group': GroupNotFoundException,
\*                  'Unknown user': UserNotFoundException}}, in the dict's order
UserErrorHandler_mapping ==
    [HTTPException |-> <<[pattern |-> <<"Unknown", "group">>, exc |-> "GroupNotFoundException"],
                         [pattern |-> <<"Unknown", "user">>, exc |-> "UserNotFoundException"]>>]

\* ErrorMapper.wrap: an exception of a mapped class whose text holds one of the
\* class's patterns is raised as that pattern's exception; anything else passes
ErrorMapper_wrap(outcome) ==
    IF outcome.kind = "raise" /\ outcome.exc.cls \in DOMAIN UserErrorHandler_mapping
    THEN LET entries == UserErrorHandler_mapping[outcome.exc.cls]
             hits == {i \in 1..Len(entries) : Contains(outcome.exc.text, entries[i].pattern)}
         IN IF hits = {} THEN outcome
            ELSE LET first == CHOOSE i \in hits : \A j \in hits : i <= j
                 IN Raise([outcome.exc EXCEPT !.cls = entries[first].exc])
    ELSE outcome

\* NotSupportedWrapper.a_404_means_not_supported: a not-found answer means the
\* endpoint is not supported, which the listing reports as no groups
NotSupportedWrapper_a_404_means_not_supported(outcome) ==
    IF outcome.kind = "raise" /\ outcome.exc.cls = "HTTPException" /\ outcome.exc.status = 404
    THEN Return(<<>>)
    ELSE outcome

-----------------------------------------------------------------------------
(* User *)

PyList(l) == [t |-> "list", v |-> l]
PySet(S) == [t |-> "set", v |-> S]
PyStr(s) == [t |-> "str", v |-> s]
\* a str that is only stored and compared
PyId(s) == [t |-> "id", v |-> s]

AdminRole == RawRole(<<"a", "d", "m", "i", "n">>, None)
BucketRole == RawRole(<<"r", "w">>, <<"b", "1">>)

\* User(**raw_data)
User_init(raw_data) ==
    [kind |-> "User", raw |-> raw_data, passwordSet |-> "password" \in DOMAIN raw_data]

User_username(user) == Get(user.raw, "username", NoneVal)

User_as_dict_truthy(user) ==
    [k \in {x \in DOMAIN user.raw : x = "password" => user.raw[x] \notin {"", NoneVal}} |-> user.raw[k]]

User_as_dict(user) == user.raw

\* the keyword arguments a caller constructs a User with
UserKwargs ==
    {Update(Update(Update(Update([username |-> n], p), r), g), x) :
        n \in {"", "u1"},
        p \in {EmptyDict, [password |-> ""], [password |-> "pw"]},
        r \in {EmptyDict, [roles |-> PyList(<<>>)], [roles |-> PyList(<<AdminRole>>)]},
        g \in {EmptyDict, [groups |-> PySet({})], [groups |-> PySet({"g1"})]},
        x \in {EmptyDict, [name |-> "N"], [timeout |-> "5"]}}

NewUser ==
    \E kw \in UserKwargs :
        /\ entity = NoEntity
        /\ last = NoOp
        /\ entity' = User_init(kw)
        /\ UNCHANGED <<composed, rt, last, heap, meta, u1, u2, access>>

\* user.password = value
SetPassword ==
    \E value \in {"", "pw", NoneVal} :
        /\ entity.kind = "User"
        /\ last = NoOp
        /\ entity' = [entity EXCEPT !.raw = Update(@, [password |-> value]), !.passwordSet = TRUE]
        /\ UNCHANGED <<composed, rt, last, heap, meta, u1, u2, access>>

-----------------------------------------------------------------------------
(* Group *)

\* Group(name, **kwargs): JSONMapping keeps kwargs as the raw mapping
Group_init(name, kwargs) ==
    [kind |-> "Group", name |-> name, raw |-> kwargs,
     given |-> IF "roles" \in DOMAIN kwargs /\ kwargs["roles"].t = "set" THEN kwargs["roles"].v ELSE {}]

\* Group.from_json: the wire key id is the name, the rest is the raw mapping
Group_from_json(kwargs) ==
    Group_init(kwargs["id"], [k \in (DOMAIN kwargs) \ {"id"} |-> kwargs[k]])

\* `if v` for a value of the raw mapping
Truthy(v) ==
    CASE v.t = "set" -> v.v # {}
      [] v.t \in {"list", "str"} -> v.v # <<>>
      [] OTHER -> v.v \notin {"", NoneVal}

\* the orders in which `for x in value` may see a list or a set
IterOrders(value) == IF value.t = "set" THEN Orderings(value.v) ELSE {value.v}

IsStr(x) == "t" \in DOMAIN x /\ x.t = "str"

\* Group.as_dict, iterating the roles in the given order
Group_as_dict(group, order) ==
    LET result == [k \in {x \in DOMAIN group.raw : Truthy(group.raw[x])} |-> group.raw[k]] IN
    IF "roles" \in DOMAIN result
    THEN IF \A i \in 1..Len(order) : IsStr(order[i])
         THEN Return(Update(result,
                  [roles |-> PyStr(Join(<<",">>, [i \in 1..Len(order) |-> ulp_quote(order[i].v)]))]))
         ELSE Raise(TypeError)
    ELSE Return(Update(result, [roles |-> PyList(<<>>)]))

\* mk_formstr: the fields of the form body, one per key of the mapping
FormKeyOrder == <<"description", "ldap_group_ref", "roles", "name", "id">>
mk_formstr(d) ==
    LET keys == SelectSeq(FormKeyOrder, LAMBDA k : k \in DOMAIN d)
    IN [i \in 1..Len(keys) |-> [key |-> keys[i], value |-> d[keys[i]]]]

\* the keyword arguments a caller constructs a Group with
GroupKwargs ==
    {Update(d, r) :
        d \in {EmptyDict, [description |-> PyId("")], [description |-> PyId(NoneVal)],
               [description |-> PyId("d")]},
        r \in {EmptyDict} \cup {[roles |-> PySet(S)] : S \in SUBSET {AdminRole, BucketRole}}}

NewGroup ==
    \E name \in {"", "g1"}, kw \in GroupKwargs :
        /\ entity = NoEntity
        /\ last = NoOp
        /\ entity' = Group_init(name, kw)
        /\ UNCHANGED <<composed, rt, last, heap, meta, u1, u2, access>>

\* group.roles = value
SetGroupRoles ==
    \E value \in SUBSET {AdminRole, BucketRole} : \E order \in Orderings(value) :
        /\ entity.kind = "Group"
        /\ last = NoOp
        /\ entity' = [entity EXCEPT
                !.raw = Update(@, [roles |-> PyList([i \in 1..Len(order) |-> PyStr(Admin_role_to_str(order[i]))])]),
                !.given = value]
        /\ UNCHANGED <<composed, rt, last, heap, meta, u1, u2, access>>

-----------------------------------------------------------------------------
(* The transport collaborator (self._admin_bucket) as the manager sees it *)

NoCall == [prim |-> "none"]
NoContent == <<>>
Local == "local"

\* one invocation of a transport primitive
Call(prim, target, method, content, params) ==
    [prim |-> prim, target |-> target, method |-> method, content |-> content, params |-> params]

\* what the server may answer: success, or a generic HTTP fault with a status
\* and a response text (a sequence of words)
FaultTexts ==
    {<<"Unknown", "user", "ghost">>, <<"Error", "Unknown", "group">>,
     <<"Not", "found">>, <<"user", "Unknown">>}
Responses ==
    {[ok |-> TRUE]} \cup {[ok |-> FALSE, status |-> st, text |-> tx] : st \in {404, 500}, tx \in FaultTexts}

\* the transport's result: the decoded value, or the fault it raises
Transport(resp, value) ==
    IF resp.ok THEN Return(value) ELSE Raise(HTTPException(resp.status, resp.text))

\* payloads of successful answers
UserPayload == [id |-> "u1", domain |-> Local]
GroupPayload == [id |-> "g1", description |-> PyId("d"), roles |-> PyList(<<PyStr(<<"a", "d", "m", "i", "n">>)>>)]
RolePayload == [role |-> "admin", name |-> "Admin", desc |-> "all"]

\* the values the call sites pass: identifiers, keyword arguments, options
Identifiers == {"", "u1"}
OpKwargs == {EmptyDict, [timeout |-> "10"], [timeout |-> NoneVal]}
OpOptions == {<<>>, <<[timeout |-> "5"]>>}

\* the record of an operation that has returned or raised
Done(op, ident, kw, opts, call, resp, outcome) ==
    [op |-> op, ident |-> ident, kwargs |-> kw, options |-> opts,
     call |-> call, response |-> resp, outcome |-> outcome]

\* apply f to the value an outcome returns
OnReturn(outcome, value) == IF outcome.kind = "return" THEN Return(value) ELSE outcome

-----------------------------------------------------------------------------
(* UserManager *)

get_user ==
    \E username \in Identifiers, kw \in OpKwargs, opts \in OpOptions, resp \in Responses :
        LET call == Call("user_get", <<Local, username>>, NoneVal, NoContent, forward_args(kw, opts))
            got == Transport(resp, UserPayload)
            out == OnReturn(got, [kind |-> "UserAndMetadata", raw |-> UserPayload])
        IN /\ last = NoOp
           /\ last' = Done("get_user", username, kw, opts, call, resp, ErrorMapper_wrap(out))
           /\ UNCHANGED <<composed, rt, entity, heap, meta, u1, u2, access>>

get_all_users ==
    \E kw \in OpKwargs, opts \in OpOptions, resp \in Responses :
        LET call == Call("users_get", <<Local>>, NoneVal, NoContent, forward_args(kw, opts))
            got == Transport(resp, <<UserPayload>>)
            out == OnReturn(got, <<[kind |-> "UserAndMetadata", raw |-> UserPayload]>>)
        IN /\ last = NoOp
           /\ last' = Done("get_all_users", NoneVal, kw, opts, call, resp, ErrorMapper_wrap(out))
           /\ UNCHANGED <<composed, rt, entity, heap, meta, u1, u2, access>>

upsert_user ==
    /\ last = NoOp
    /\ entity.kind = "User"
    /\ \E kw \in OpKwargs, opts \in OpOptions, resp \in Responses :
        LET final_opts == Restrict(User_as_dict(entity), {"password", "roles", "name", "timeout"})
            call == Call("user_upsert", <<Local, User_username(entity)>>, NoneVal, NoContent, final_opts)
            out == OnReturn(Transport(resp, NoneVal), NoneVal)
        IN /\ last' = Done("upsert_user", User_username(entity), kw, opts, call, resp, ErrorMapper_wrap(out))
           /\ UNCHANGED <<composed, rt, entity, heap, meta, u1, u2, access>>

drop_user ==
    \E user_name \in Identifiers, kw \in OpKwargs, opts \in OpOptions, resp \in Responses :
        LET final_args == forward_args(kw, opts)
            call == Call("user_remove", <<Local, user_name>>, NoneVal, NoContent, final_args)
            out == OnReturn(Transport(resp, NoneVal), NoneVal)
        IN /\ last = NoOp
           /\ last' = Done("drop_user", user_name, kw, opts, call, resp, ErrorMapper_wrap(out))
           /\ UNCHANGED <<composed, rt, entity, heap, meta, u1, u2, access>>

get_roles ==
    \E kw \in OpKwargs, opts \in OpOptions, resp \in Responses :
        LET call == Call("http_request", <<"/settings/rbac/roles/">>, "GET", NoContent, forward_args(kw, opts))
            got == Transport(resp, <<RolePayload>>)
            out == OnReturn(got, <<[kind |-> "RoleAndDescription", raw |-> RolePayload]>>)
        IN /\ last = NoOp
           /\ last' = Done("get_roles", NoneVal, kw, opts, call, resp, ErrorMapper_wrap(out))
           /\ UNCHANGED <<composed, rt, entity, heap, meta, u1, u2, access>>

get_group ==
    \E group_name \in Identifiers, kw \in OpKwargs, opts \in OpOptions, resp \in Responses :
        LET call == Call("http_request", <<"/settings/rbac/groups/", group_name>>, "GET", NoContent,
                         forward_args(kw, opts))
            got == Transport(resp, GroupPayload)
            out == OnReturn(got, Group_from_json(GroupPayload))
        IN /\ last = NoOp
           /\ last' = Done("get_group", group_name, kw, opts, call, resp, ErrorMapper_wrap(out))
           /\ UNCHANGED <<composed, rt, entity, heap, meta, u1, u2, access>>

get_all_groups_undecorated ==
    \E kw \in OpKwargs, opts \in OpOptions, resp \in Responses :
        LET call == Call("http_request", <<"/settings/rbac/groups/">>, "GET", NoContent,
                         forward_args(kw, opts))
            groups == Transport(resp, <<GroupPayload>>)
            out == OnReturn(groups, <<Group_from_json(GroupPayload)>>)
        IN /\ last = NoOp
           /\ last' = Done("get_all_groups", NoneVal, kw, opts, call, resp, ErrorMapper_wrap(out))
           /\ UNCHANGED <<composed, rt, entity, heap, meta, u1, u2, access>>

get_all_groups ==
    \E kw \in OpKwargs, opts \in OpOptions, resp \in Responses :
        LET call == Call("http_request", <<"/settings/rbac/groups/">>, "GET", NoContent,
                         forward_args(kw, opts))
            groups == Transport(resp, <<GroupPayload>>)
            out == OnReturn(groups, <<Group_from_json(GroupPayload)>>)
        IN /\ last = NoOp
           /\ last' = Done("get_all_groups", NoneVal, kw, opts, call, resp,
                           ErrorMapper_wrap(NotSupportedWrapper_a_404_means_not_supported(out)))
           /\ UNCHANGED <<composed, rt, entity, heap, meta, u1, u2, access>>

upsert_group ==
    /\ last = NoOp
    /\ entity.kind = "Group"
    /\ \E kw \in OpKwargs, opts \in OpOptions, resp \in Responses :
        \E order \in IterOrders(Get(entity.raw, "roles", PyList(<<>>))) :
        LET group_dict == Group_as_dict(entity, order)
            encoded == group_dict.kind = "return"
            call == IF encoded
                    THEN Call("http_request", <<"/settings/rbac/groups/", entity.name>>, "PUT",
                              [content |-> mk_formstr(group_dict.value),
                               content_type |-> "application/x-www-form-urlencoded"],
                              forward_args(kw, opts))
                    ELSE NoCall
            out == IF encoded THEN OnReturn(Transport(resp, NoneVal), NoneVal) ELSE group_dict
        IN /\ last' = Done("upsert_group", entity.name, kw, opts, call, resp, ErrorMapper_wrap(out))
           /\ UNCHANGED <<composed, rt, entity, heap, meta, u1, u2, access>>

drop_group ==
    \E group_name \in Identifiers, kw \in OpKwargs, opts \in OpOptions, resp \in Responses :
        LET call == Call("http_request", <<"/settings/rbac/groups/", group_name>>, "DELETE", NoContent,
                         forward_args(kw, opts))
            out == OnReturn(Transport(resp, NoneVal), NoneVal)
        IN /\ last = NoOp
           /\ last' = Done("drop_group", group_name, kw, opts, call, resp, ErrorMapper_wrap(out))
           /\ UNCHANGED <<composed, rt, entity, heap, meta, u1, u2, access>>

\* a caller reads group.as_dict() directly
as_dict ==
    /\ last = NoOp
    /\ entity.kind = "Group"
    /\ \E order \in IterOrders(Get(entity.raw, "roles", PyList(<<>>))) :
        /\ last' = Done("as_dict", entity.name, EmptyDict, <<>>, NoCall, [ok |-> TRUE],
                        Group_as_dict(entity, order))
        /\ UNCHANGED <<composed, rt, entity, heap, meta, u1, u2, access>>

\* the entity the caller held goes out of scope
DropEntity ==
    /\ entity # NoEntity
    /\ last = NoOp
    /\ entity' = NoEntity
    /\ UNCHANGED <<composed, rt, last, heap, meta, u1, u2, access>>

-----------------------------------------------------------------------------
(* RawUserAndMetadata, RoleAndOrigins *)

\* a reference to a list object of the heap
Ref(i) == [ref |-> i]

\* a raw mapping with every reference replaced by the list it points to
Deep(raw) == [k \in DOMAIN raw |-> IF k = "roles" THEN heap[raw[k].ref] ELSE raw[k]]

\* RoleAndOrigins(*args): __init__ takes no argument besides self, and the
\* role and origins properties of the object return None
RoleAndOrigins_new(args) ==
    IF Len(args) = 0 THEN Return([role |-> NoneVal, origins |-> NoneVal]) ELSE Raise(TypeError)

\* RawUserAndMetadata(raw_data); `initially` records the data it was built from
RawUserAndMetadata_init(raw_data, lists) ==
    [kind |-> "UserAndMetadata", raw |-> raw_data,
     initially |-> [k \in DOMAIN raw_data |->
                      IF k = "user"
                      THEN [j \in DOMAIN raw_data[k] |->
                              IF j = "roles" THEN lists[raw_data[k][j].ref] ELSE raw_data[k][j]]
                      ELSE raw_data[k]]]

\* the data a RawUserAndMetadata holds now
MetaNow(m) == [k \in DOMAIN m.raw |-> IF k = "user" THEN Deep(m.raw[k]) ELSE m.raw[k]]

\* RawUserAndMetadata.user: User(**raw_data.get('user')), a new dict holding the
\* same values; `initially` records the fields the User had when it was obtained
RawUserAndMetadata_user(m) ==
    [kind |-> "User", raw |-> m.raw["user"],
     passwordSet |-> "password" \in DOMAIN m.raw["user"], initially |-> Deep(m.raw["user"])]

\* RawUserAndMetadata.effective_roles_and_origins
RawUserAndMetadata_effective_roles_and_origins(m) ==
    IF "effective_roles_and_origins" \notin DOMAIN m.raw THEN Raise(TypeError)
    ELSE LET items == m.raw["effective_roles_and_origins"]
             made == [i \in 1..Len(items) |-> RoleAndOrigins_new(<<items[i]>>)]
         IN IF \E i \in 1..Len(items) : made[i].kind = "raise" THEN Raise(TypeError)
            ELSE Return([i \in 1..Len(items) |-> made[i].value])

\* the entries of a payload's effective_roles_and_origins: without origins (a
\* server before 6.5), with a user origin, with a group origin
OriginEntries ==
    {[role |-> "admin"],
     [role |-> "admin", origins |-> <<[type |-> "user"]>>],
     [role |-> "admin", origins |-> <<[type |-> "group", name |-> "g1"]>>]}

\* the payloads get_user and get_all_users build a RawUserAndMetadata from
MetaPayloads ==
    {Update([user |-> Update([username |-> "u1"], r), domain |-> Local], e) :
        r \in {EmptyDict, [roles |-> Ref(1)]},
        e \in {EmptyDict} \cup {[effective_roles_and_origins |-> l] : l \in ListsOver(OriginEntries, 1)}}

NewMeta ==
    \E payload \in MetaPayloads, roles \in ListsOver({AdminRole, BucketRole}, MaxRoles - 1) :
        /\ meta = NoMeta
        /\ access = NoAccess
        /\ "roles" \notin DOMAIN payload["user"] => roles = <<>>
        /\ heap' = IF "roles" \in DOMAIN payload["user"] THEN <<roles>> ELSE <<>>
        /\ meta' = RawUserAndMetadata_init(payload, <<roles>>)
        /\ UNCHANGED <<composed, rt, entity, last, u1, u2, access>>

\* u = m.user, the first time into u1 and the second time into u2
AccessUser ==
    /\ meta # NoMeta
    /\ access = NoAccess
    /\ u2 = NoUser
    /\ IF u1 = NoUser
       THEN u1' = RawUserAndMetadata_user(meta) /\ u2' = u2
       ELSE u2' = RawUserAndMetadata_user(meta) /\ u1' = u1
    /\ UNCHANGED <<composed, rt, entity, last, heap, meta, access>>

\* u1.roles.append(role)
AddRole ==
    \E role \in {AdminRole, BucketRole} :
        /\ u1 # NoUser
        /\ access = NoAccess
        /\ "roles" \in DOMAIN u1.raw
        /\ Len(heap[u1.raw["roles"].ref]) < MaxRoles
        /\ heap' = [heap EXCEPT ![u1.raw["roles"].ref] = Append(@, role)]
        /\ UNCHANGED <<composed, rt, entity, last, meta, u1, u2, access>>

\* u1.roles.remove(role)
RemoveRole ==
    /\ u1 # NoUser
    /\ access = NoAccess
    /\ "roles" \in DOMAIN u1.raw
    /\ \E i \in 1..Len(heap[u1.raw["roles"].ref]) :
        LET l == heap[u1.raw["roles"].ref] IN
        heap' = [heap EXCEPT ![u1.raw["roles"].ref] = SubSeq(l, 1, i - 1) \o SubSeq(l, i + 1, Len(l))]
    /\ UNCHANGED <<composed, rt, entity, last, meta, u1, u2, access>>

\* u1.password = value
SetUserPassword ==
    \E value \in {"", "pw"} :
        /\ u1 # NoUser
        /\ access = NoAccess
        /\ u1' = [u1 EXCEPT !.raw = Update(@, [password |-> value]), !.passwordSet = TRUE]
        /\ UNCHANGED <<composed, rt, entity, last, heap, meta, u2, access>>

\* m.effective_roles_and_origins
AccessEffective ==
    /\ meta # NoMeta
    /\ access = NoAccess
    /\ access' = [kind |-> "done", outcome |-> RawUserAndMetadata_effective_roles_and_origins(meta)]
    /\ UNCHANGED <<composed, rt, entity, last, heap, meta, u1, u2>>

\* the RawUserAndMetadata and the Users obtained from it go out of scope
DropMeta ==
    /\ meta # NoMeta
    /\ access = NoAccess
    /\ meta' = NoMeta
    /\ u1' = NoUser
    /\ u2' = NoUser
    /\ heap' = <<>>
    /\ UNCHANGED <<composed, rt, entity, last, access>>

-----------------------------------------------------------------------------
(* The initial state: nothing has been constructed or called *)

Init ==
    /\ composed = NoCompose
    /\ rt = NoRt
    /\ entity = NoEntity
    /\ last = NoOp
    /\ heap = <<>>
    /\ meta = NoMeta
    /\ u1 = NoUser
    /\ u2 = NoUser
    /\ access = NoAccess

\* the caller drops the result of the call it made, and may make another
Discard ==
    /\ composed # NoCompose \/ rt # NoRt \/ last # NoOp \/ access # NoAccess
    /\ composed' = NoCompose
    /\ rt' = NoRt
    /\ last' = NoOp
    /\ access' = NoAccess
    /\ UNCHANGED <<entity, heap, meta, u1, u2>>

Next ==
    \/ NewUser \/ SetPassword \/ NewGroup \/ SetGroupRoles \/ DropEntity
    \/ get_user \/ get_all_users \/ upsert_user \/ drop_user \/ get_roles
    \/ get_group \/ get_all_groups \/ upsert_group \/ drop_group
    \/ as_dict
    \/ Discard
Spec == Init /\ [][Next]_vars

NextMeta ==
    \/ NewMeta \/ AccessUser \/ AddRole \/ RemoveRole \/ SetUserPassword
    \/ AccessEffective \/ DropMeta \/ Discard
SpecMeta == Init /\ [][NextMeta]_vars

NextOpts == Compose \/ Discard
SpecOpts == Init /\ [][NextOpts]_vars

NextRole == RoundTrip \/ DecodeDict \/ DecodeTuple \/ Discard
SpecRole == Init /\ [][NextRole]_vars

-----------------------------------------------------------------------------
(* Properties *)

\* the value of the last of the blocks that gives key k a value other than None
RECURSIVE LastProvided(_, _)
LastProvided(blocks, k) ==
    IF blocks = <<>> THEN NoneVal
    ELSE LET b == blocks[Len(blocks)] IN
         IF Get(b, k, NoneVal) # NoneVal THEN b[k]
         ELSE LastProvided(SubSeq(blocks, 1, Len(blocks) - 1), k)

\* the timeout a call supplies: the keyword's, else the last options block's
SuppliedTimeout(kw, opts) ==
    IF Get(kw, "timeout", NoneVal) # NoneVal THEN kw["timeout"] ELSE LastProvided(opts, "timeout")

\* the fault a response text is classified as
Classified(text) ==
    IF Contains(text, <<"Unknown", "user">>) THEN "UserNotFoundException"
    ELSE IF Contains(text, <<"Unknown", "group">>) THEN "GroupNotFoundException"
    ELSE "HTTPException"

\* the transport was invoked and raised a generic HTTP fault
TransportFault == last.op # "none" /\ last.call # NoCall /\ ~last.response.ok

\* the value of a field of a form body, <<>> when the body has no such field
FormFields(body, key) == {i \in 1..Len(body) : body[i].key = key}

(* C1: the parameters upsert_user hands to the transport hold a 'password' *)
(* key exactly when a password was set on the User, at construction or     *)
(* through the setter, the empty string included.                          *)
C1_PasswordKeyIffSet ==
    last.op = "upsert_user" =>
        (("password" \in DOMAIN last.call.params) <=> entity.passwordSet)

\* upsert_user of a User whose password was set to "" sends the key
C1_Witness ==
    /\ last.op = "upsert_user"
    /\ entity.passwordSet
    /\ entity.raw["password"] = ""
    /\ "password" \in DOMAIN last.call.params
    /\ last.call.params["password"] = ""

(* C2: mutating the first User obtained from a UserAndMetadata (its roles, *)
(* its password) changes neither the second User obtained from it nor the  *)
(* data the UserAndMetadata was built from.                                *)
C2_UserCopiesIndependent ==
    /\ meta # NoMeta => MetaNow(meta) = meta.initially
    /\ u2 # NoUser => Deep(u2.raw) = u2.initially

(* C3: forward_args gives each key the keyword's value when the keywords   *)
(* provide one, otherwise the value of the last options block providing    *)
(* it, and holds no key whose value is None.                               *)
C3_KeywordsThenLastBlock ==
    composed.done =>
        /\ DOMAIN composed.result \subseteq OptionKeys
        /\ \A k \in OptionKeys :
            LET kwv == Get(composed.kwargs, k, NoneVal)
                want == IF kwv # NoneVal THEN kwv ELSE LastProvided(composed.options, k)
            IN IF want = NoneVal THEN k \notin DOMAIN composed.result
               ELSE k \in DOMAIN composed.result /\ composed.result[k] = want

\* block {timeout: 5} with keyword timeout=10 gives timeout == 10
C3_Witness ==
    /\ composed.done
    /\ composed.kwargs = [timeout |-> "10"]
    /\ composed.options = <<[timeout |-> "5"]>>
    /\ composed.result = [timeout |-> "10"]

(* C4: get_all_groups answered with a 404 returns an empty sequence and    *)
(* raises nothing.                                                         *)
C4_NotFoundMeansNoGroups ==
    (last.op = "get_all_groups" /\ ~last.response.ok /\ last.response.status = 404) =>
        last.outcome = Return(<<>>)

C4_Witness ==
    /\ last.op = "get_all_groups"
    /\ ~last.response.ok
    /\ last.response.status = 404
    /\ last.outcome.kind = "return"

(* C5, as stated: for every operation a generic HTTP fault of the          *)
(* transport is raised as user-not-found when its text contains "Unknown   *)
(* user", as group-not-found when it contains "Unknown group", and         *)
(* unchanged otherwise.                                                    *)
C5_FaultsClassifiedEveryOperation ==
    TransportFault =>
        last.outcome = Raise([cls |-> Classified(last.response.text),
                              status |-> last.response.status, text |-> last.response.text])

(* C5, amended: the same for every operation except a get_all_groups that  *)
(* is answered with a 404, which returns an empty sequence instead.        *)
C5_FaultsClassified ==
    (TransportFault /\ ~(last.op = "get_all_groups" /\ last.response.status = 404)) =>
        last.outcome = Raise([cls |-> Classified(last.response.text),
                              status |-> last.response.status, text |-> last.response.text])

\* drop_user answered with "Unknown user ghost" raises user-not-found
C5_Witness ==
    /\ last.op = "drop_user"
    /\ TransportFault
    /\ last.response.text = <<"Unknown", "user", "ghost">>
    /\ last.outcome.kind = "raise"
    /\ last.outcome.exc.cls = "UserNotFoundException"

(* C6: for a Group with a non-empty set of roles, given to the constructor *)
(* or assigned through the setter, upsert_group sends a form body whose    *)
(* 'roles' value is the comma-separated percent-escaped role strings, and  *)
(* which has no 'name' and no 'id' field.                                  *)
C6_GroupFormBody ==
    (last.op = "upsert_group" /\ entity.given # {}) =>
        /\ last.call # NoCall
        /\ LET body == last.call.content.content IN
            /\ FormFields(body, "name") = {}
            /\ FormFields(body, "id") = {}
            /\ \E i \in FormFields(body, "roles") : \E order \in Orderings(entity.given) :
                body[i].value =
                    PyStr(Join(<<",">>, [j \in 1..Len(order) |-> ulp_quote(Admin_role_to_str(order[j]))]))

(* C7, as stated: for every Role r, Role.decode(str(r)) = r.                *)
C7_RoundTripEveryRole ==
    rt.form = "str" => rt.decoded = rt.role

(* C7, amended: for every Role r whose name contains no "[",               *)
(* Role.decode(str(r)) = r, whatever the characters of the bucket name.    *)
C7_RoundTripBracketFreeName ==
    (rt.form = "str" /\ \A i \in 1..Len(rt.role.name) : rt.role.name[i] # "[") =>
        rt.decoded = rt.role

\* a bucket-scoped role whose bucket name needs percent-encoding round-trips
C7_Witness ==
    /\ rt.form = "str"
    /\ rt.role = RawRole(<<"a">>, <<"%", "]">>)
    /\ rt.wire = StrParam(<<"a", "[", "%", "]", "]">>)
    /\ rt.decoded = rt.role

(* C8: for a user payload whose roles carry no 'origins' field,            *)
(* effective_roles_and_origins is produced without raising and every entry *)
(* of it has exactly one origin, of type "user".                           *)
C8_ImplicitUserOrigin ==
    (/\ access.kind = "done"
     /\ \A i \in 1..Len(Get(meta.raw, "effective_roles_and_origins", <<>>)) :
            "origins" \notin DOMAIN meta.raw["effective_roles_and_origins"][i]) =>
        /\ access.outcome.kind = "return"
        /\ \A i \in 1..Len(access.outcome.value) :
            access.outcome.value[i].origins = <<[type |-> "user"]>>

(* C9: for every operation, the timeout the caller supplies, as a keyword  *)
(* or in an options block, is present with that value in the parameters    *)
(* passed to the transport.                                                *)
C9_TimeoutForwarded ==
    (last.op # "none" /\ last.call # NoCall
        /\ SuppliedTimeout(last.kwargs, last.options) # NoneVal) =>
        /\ "timeout" \in DOMAIN last.call.params
        /\ last.call.params["timeout"] = SuppliedTimeout(last.kwargs, last.options)

(* C10: an operation given an empty username or group name fails with an   *)
(* invalid-argument fault and never invokes the transport.                 *)
C10_EmptyIdentifierRejected ==
    (/\ last.op \in {"get_user", "drop_user", "upsert_user", "get_group", "drop_group", "upsert_group"}
     /\ last.ident = "") =>
        /\ last.call = NoCall
        /\ last.outcome.kind = "raise"
        /\ last.outcome.exc.cls = "InvalidArgumentsException"

(* C11: the parameters upsert_user passes to the transport are exactly the  *)
(* entries of the user's raw data whose key is password, roles, name or    *)
(* timeout, values unchanged: 'roles' is sent whenever the raw data has    *)
(* the key, even if empty, and no 'groups' key is sent when the user's     *)
(* group set is empty.                                                     *)
C11_UpsertUserParams ==
    last.op = "upsert_user" =>
        LET params == last.call.params
            raw == entity.raw
        IN /\ \A k \in {"password", "roles", "name", "timeout"} :
                IF k \in DOMAIN raw
                THEN k \in DOMAIN params /\ params[k] = raw[k]
                ELSE k \notin DOMAIN params
           /\ DOMAIN params \subseteq {"password", "roles", "name", "timeout"}
           /\ Get(raw, "groups", PySet({})).v = {} => "groups" \notin DOMAIN params

\* a User with an empty roles list, an empty group set and a name is upserted:
\* the empty roles and the name are sent, the groups are not
C11_Witness ==
    /\ last.op = "upsert_user"
    /\ "roles" \in DOMAIN entity.raw /\ entity.raw["roles"] = PyList(<<>>)
    /\ "groups" \in DOMAIN entity.raw /\ entity.raw["groups"] = PySet({})
    /\ "name" \in DOMAIN entity.raw
    /\ DOMAIN last.call.params = {"roles", "name"}
    /\ last.call.params["roles"] = PyList(<<>>)

\* the stored values Python treats as false: '', None, an empty collection
FalsyValues == {PyId(""), PyId(NoneVal), PyStr(<<>>), PyList(<<>>), PySet({})}

(* C12: for every Group, as_dict returns a mapping that omits every field  *)
(* whose stored value is falsy, keeps the other fields, and always has the *)
(* key 'roles': when the group has no roles key, or its roles are empty,   *)
(* 'roles' is the empty list.                                              *)
C12_AsDictOmitsFalsyKeepsRoles ==
    last.op = "as_dict" =>
        /\ last.outcome.kind = "return"
        /\ LET result == last.outcome.value
               raw == entity.raw
           IN /\ \A k \in DOMAIN raw : raw[k] \in FalsyValues /\ k # "roles" => k \notin DOMAIN result
              /\ \A k \in DOMAIN raw : raw[k] \notin FalsyValues => k \in DOMAIN result
              /\ DOMAIN result \subseteq DOMAIN raw \cup {"roles"}
              /\ "roles" \in DOMAIN result
              /\ ("roles" \notin DOMAIN raw \/ raw["roles"] \in FalsyValues) =>
                    result["roles"] = PyList(<<>>)

====
